---- MODULE Spec2Model ----
(***************************************************************************)
(* GitHub integration layer of mosaic (crates/utils/src/github/mod.rs):    *)
(* the GitHubClient constructor, its five operations                       *)
(* (get_user_events, get_user_profile, get_repository, get_languages,      *)
(* get_content_by_path) run as concurrent async calls, and                 *)
(* GitHubContentObject::decoded_content.                                   *)
(*                                                                         *)
(* Text is modelled as a sequence of chunks (TLA+ strings): the JSON       *)
(* punctuation is one chunk per character, so that parsing, formatting     *)
(* and "contains" are computed on the text.  Bytes are integers 0..255.    *)
(* Option<T> is a sequence of length 0 (None) or 1 (Some).                 *)
(***************************************************************************)
EXTENDS Integers, Sequences, FiniteSets, TLC

VARIABLES
  client,    \* the GitHubClient: state of construction and default headers
  token,     \* the credential handed to GitHubClient::new
  pc,        \* per call: position of the async fn
  op,        \* per call: which operation, with its arguments
  requests,  \* per call: the HTTP requests issued, in order
  response,  \* per call: the upstream response (Option)
  result,    \* per call: the returned Result (Option)
  log,       \* per call: tracing events emitted, in order
  content,   \* GitHubContentObject.content: Option<String> as bytes
  source,    \* the text whose base64 encoding content was built from (Option)
  decoded,   \* outcome of decoded_content
  dpc        \* position of the content decoder scenario

vars == <<client, token, pc, op, requests, response, result, log,
          content, source, decoded, dpc>>

callVars == <<pc, op, requests, response, result, log>>
decoderVars == <<content, source, decoded, dpc>>

----------------------------------------------------------------------------
(* Bounds *)

NumCalls == 2       \* concurrent calls in SpecConc
MaxTokenLen == 2    \* bytes of the credential
MaxTextLen == 1     \* code points of the encoded text
MaxWs == 2          \* whitespace bytes interleaved into the base64 text
MaxContentLen == 4  \* bytes of an arbitrary raw content

----------------------------------------------------------------------------
(* Text helpers *)

None == <<>>
Some(x) == <<x>>
IsSome(o) == Len(o) = 1
Unwrap(o) == o[1]

\* s occurs in t as a contiguous run of chunks
Contains(t, s) ==
  \E i \in 0..(Len(t) - Len(s)) : SubSeq(t, i + 1, i + Len(s)) = s

RECURSIVE Concat(_)
Concat(ss) == IF ss = <<>> THEN <<>> ELSE Head(ss) \o Concat(Tail(ss))

RECURSIVE Join(_, _)
\* the texts of ss separated by the chunk sep
Join(ss, sep) ==
  IF ss = <<>> THEN <<>>
  ELSE IF Len(ss) = 1 THEN ss[1]
  ELSE ss[1] \o <<sep>> \o Join(Tail(ss), sep)

Q == "\""
Quoted(s) == <<Q>> \o s \o <<Q>>
Punctuation == {"{", "}", "[", "]", ":", ",", Q}
Literals == {"null", "true", "false", "0", "1", "404", "422", "500"}

----------------------------------------------------------------------------
(* JSON text, as serde_json reads it.  A value is delimited on the text;   *)
(* a serde_json::Value is represented by the span of text that denotes it. *)

\* the indexes after i of the quotes of t
QuotesAfter(t, i) == {j \in (i + 1)..Len(t) : t[j] = Q}

\* the least element of a non-empty set of integers
Min(S) == CHOOSE j \in S : \A k \in S : j <= k

\* index after the string literal opening at i, 0 when it is not closed
StringEnd(t, i) ==
  IF i > Len(t) \/ t[i] # Q \/ QuotesAfter(t, i) = {} THEN 0
  ELSE Min(QuotesAfter(t, i)) + 1

RECURSIVE ValueEnd(_, _), MembersEnd(_, _), ElementsEnd(_, _)
\* index after the JSON value starting at i, 0 when there is none
ValueEnd(t, i) ==
  IF i > Len(t) THEN 0
  ELSE IF t[i] = Q THEN StringEnd(t, i)
  ELSE IF t[i] \in Literals THEN i + 1
  ELSE IF t[i] = "{" THEN
    (IF i + 1 <= Len(t) /\ t[i + 1] = "}" THEN i + 2 ELSE MembersEnd(t, i + 1))
  ELSE IF t[i] = "[" THEN
    (IF i + 1 <= Len(t) /\ t[i + 1] = "]" THEN i + 2 ELSE ElementsEnd(t, i + 1))
  ELSE 0

\* what follows an item that ends before v (0: a malformed item) in a
\* collection closed by the chunk close
AfterItem(t, v, close) ==
  IF v = 0 \/ v > Len(t) THEN "error"
  ELSE IF t[v] = close THEN "close"
  ELSE IF t[v] = "," THEN "item"
  ELSE "error"

\* k is the index after the key of a member: the index after its value
MemberValueEnd(t, k) ==
  IF k = 0 \/ k > Len(t) \/ t[k] # ":" THEN 0 ELSE ValueEnd(t, k + 1)

\* index after the "}" of an object one of whose members ends before v
ObjectEndAfter(t, v) ==
  IF AfterItem(t, v, "}") = "close" THEN v + 1
  ELSE IF AfterItem(t, v, "}") = "item" THEN MembersEnd(t, v + 1)
  ELSE 0

\* index after the "]" of an array one of whose elements ends before v
ArrayEndAfter(t, v) ==
  IF AfterItem(t, v, "]") = "close" THEN v + 1
  ELSE IF AfterItem(t, v, "]") = "item" THEN ElementsEnd(t, v + 1)
  ELSE 0

\* i is the start of a member ("key": value) of an object; index after its "}"
MembersEnd(t, i) == ObjectEndAfter(t, MemberValueEnd(t, StringEnd(t, i)))

\* i is the start of an element of an array; index after its "]"
ElementsEnd(t, i) == ArrayEndAfter(t, ValueEnd(t, i))

\* t is exactly one JSON value
IsJson(t) == t # <<>> /\ ValueEnd(t, 1) = Len(t) + 1

\* the member whose key ends before k and whose value ends before v
MemberAt(t, i, k, v) ==
  [key |-> SubSeq(t, i + 1, k - 2), val |-> SubSeq(t, k + 1, v - 1)]

RECURSIVE Members(_, _), Elements(_, _)
\* the member from i, whose key ends before k and value before v, and those
\* after it
MembersWith(t, i, k, v) ==
  <<MemberAt(t, i, k, v)>> \o (IF t[v] = "}" THEN <<>> ELSE Members(t, v + 1))

\* the members of a well-formed object, from the member starting at i:
\* key (without quotes) and the text of the value
Members(t, i) == MembersWith(t, i, StringEnd(t, i), ValueEnd(t, StringEnd(t, i) + 1))

\* the element from i, which ends before v, and those after it
ElementsWith(t, i, v) ==
  <<SubSeq(t, i, v - 1)>> \o (IF t[v] = "]" THEN <<>> ELSE Elements(t, v + 1))

\* the texts of the elements of a well-formed array, from the element at i
Elements(t, i) == ElementsWith(t, i, ValueEnd(t, i))

ObjectMembers(t) == IF Len(t) = 2 THEN <<>> ELSE Members(t, 2)
ArrayElements(t) == IF Len(t) = 2 THEN <<>> ELSE Elements(t, 2)

IsObject(t) == IsJson(t) /\ t[1] = "{"
IsArray(t) == IsJson(t) /\ t[1] = "["
IsString(t) == IsJson(t) /\ t[1] = Q
IsNull(t) == t = <<"null">>
StringValue(t) == SubSeq(t, 2, Len(t) - 1)

RECURSIVE FieldFrom(_, _, _)
\* the values of the members of ms from the i-th on that are named key
FieldFrom(ms, key, i) ==
  IF i > Len(ms) THEN <<>>
  ELSE (IF ms[i].key = <<key>> THEN <<ms[i].val>> ELSE <<>>) \o FieldFrom(ms, key, i + 1)

\* the values of the members of ms named key, in order
Field(ms, key) == FieldFrom(ms, key, 1)

\* GitHubErrorBody { documentation_url: Option<String>,
\*                   errors: Option<Vec<serde_json::Value>>, message: String }
GitHubErrorBody(documentation_url, errors, message) ==
  [documentation_url |-> documentation_url, errors |-> errors, message |-> message]

\* an optional field holds nothing, null, or a value of its type
OptionalString(vs) == vs = <<>> \/ (Len(vs) = 1 /\ (IsNull(vs[1]) \/ IsString(vs[1])))
OptionalArray(vs) == vs = <<>> \/ (Len(vs) = 1 /\ (IsNull(vs[1]) \/ IsArray(vs[1])))

\* the struct from the values found for its three fields
FromFields(msg, url, errs) ==
  IF Len(msg) = 1 /\ IsString(msg[1]) /\ OptionalString(url) /\ OptionalArray(errs)
  THEN Some(GitHubErrorBody(
         IF url # <<>> /\ ~IsNull(url[1]) THEN Some(StringValue(url[1])) ELSE None,
         IF errs # <<>> /\ ~IsNull(errs[1]) THEN Some(ArrayElements(errs[1])) ELSE None,
         StringValue(msg[1])))
  ELSE None

\* the struct from the members of the object: each field is looked up once
FromMembers(ms) ==
  CHOOSE parsed \in {FromFields(msg, url, errs) :
                       msg \in {Field(m, "message") : m \in {ms}},
                       url \in {Field(m, "documentation_url") : m \in {ms}},
                       errs \in {Field(m, "errors") : m \in {ms}}} : TRUE

\* serde_json::from_str::<GitHubErrorBody>: Some(body) or None on an error.
\* message is required and a string; the optional fields accept null;
\* unknown fields are ignored; a repeated field is an error.
ParseGitHubErrorBody(t) ==
  IF IsObject(t) THEN FromMembers(ObjectMembers(t)) ELSE None

----------------------------------------------------------------------------
(* Upstream responses *)

\* an error document as upstream builds it: the fields it holds, the order
\* of its first two members, and whether it carries a field unknown here
ErrorDocs ==
  [message : {None, Some(<<"Not Found">>), Some(<<"Validation Failed">>)},
   documentation_url : {None, Some(<<"https://docs.example/x">>)},
   errors : {None, Some(<<>>),
             Some(<< <<"{", Q, "code", Q, ":", Q, "missing", Q, "}">>, Quoted(<<"x">>) >>)},
   urlFirst : BOOLEAN,
   extra : BOOLEAN]

Member(key, valueText) == Quoted(<<key>>) \o <<":">> \o valueText

\* the JSON text of an error document
Render(d) ==
  LET msg == IF IsSome(d.message)
             THEN <<Member("message", Quoted(Unwrap(d.message)))>> ELSE <<>>
      url == IF IsSome(d.documentation_url)
             THEN <<Member("documentation_url", Quoted(Unwrap(d.documentation_url)))>>
             ELSE <<>>
      errs == IF IsSome(d.errors)
              THEN <<Member("errors", <<"[">> \o Join(Unwrap(d.errors), ",") \o <<"]">>)>>
              ELSE <<>>
      extra == IF d.extra THEN <<Member("status", Quoted(<<"404">>))>> ELSE <<>>
      ms == (IF d.urlFirst THEN url \o msg ELSE msg \o url) \o errs \o extra
  IN  <<"{">> \o Join(ms, ",") \o <<"}">>

\* bodies that are no error document
RawBodies ==
  { <<"internal error">>,
    <<>>,
    <<"[", "]">>,
    <<"null">>,
    <<"{", Q, "message", Q, ":", "1", "}">>,
    <<"{", Q, "message", Q, ":", "null", "}">>,
    <<"{", Q, "message", Q, ":", Q, "Not Found", Q>>,
    <<"{", Q, "message", Q, ":", Q, "a", Q, ",", Q, "message", Q, ":", Q, "b", Q, "}">>,
    <<"<html>", "Not Found", "</html>">> }

ErrorBodies == {Render(d) : d \in ErrorDocs} \cup RawBodies

NotFoundBody ==
  <<"{", Q, "message", Q, ":", Q, "Not Found", Q, ",",
    Q, "documentation_url", Q, ":", Q, "https://docs.example/x", Q, "}">>

MessageOnlyBody == <<"{", Q, "message", Q, ":", Q, "Not Found", Q, "}">>

Statuses == {200, 204, 304, 404, 500}

\* graphql_client::Error values of an envelope
GraphQLErrors ==
  { [message |-> "Could not resolve to a Repository", path |-> Some("repository")],
    [message |-> "Bad credentials", path |-> None],
    [message |-> "Rate limited", path |-> None] }

ErrorLists ==
  {<<>>} \cup {<<e>> : e \in GraphQLErrors}
    \cup {<<e, f>> : e \in GraphQLErrors, f \in GraphQLErrors}

\* what a body decodes to: a GraphQL envelope { data?, errors? } or the value
\* of a REST resource
Payload(data, errors, value) == [data |-> data, errors |-> errors, value |-> value]

ProfileEnvelopes ==
  {Payload(d, e, "") : d \in {None, Some(Some("viewer"))},
                       e \in {None} \cup {Some(l) : l \in ErrorLists}}

RepositoryEnvelopes ==
  {Payload(d, e, "") : d \in {None, Some(None), Some(Some("repository"))},
                       e \in {None} \cup {Some(l) : l \in ErrorLists}}

OperationNames ==
  {"get_user_events", "get_user_profile", "get_repository", "get_languages",
   "get_content_by_path"}

IsGraphQL(o) == o.name \in {"get_user_profile", "get_repository"}

\* the payloads a body of the operation can decode to
Payloads(o) ==
  CASE o.name = "get_user_events" -> {Payload(None, None, v) : v \in {"[]", "[event]"}}
    [] o.name = "get_user_profile" -> ProfileEnvelopes
    [] o.name = "get_repository" -> RepositoryEnvelopes
    [] o.name = "get_languages" -> {Payload(None, None, v) : v \in {"{}", "{Rust: 1}"}}
    [] o.name = "get_content_by_path" ->
         {Payload(None, None, v) : v \in {"content object"}}
    [] OTHER -> {}

\* a response: its status, whether its body can be read, the text of the
\* body, and what the body decodes to as the type the operation expects
\* (None when it does not decode)
Response(status, readable, text, payload) ==
  [status |-> status, readable |-> readable, text |-> text, payload |-> payload]

is_success(status) == 200 <= status /\ status < 300

Responses(o) ==
  {Response(st, TRUE, <<>>, pl) :
     st \in {x \in Statuses : is_success(x) \/ IsGraphQL(o)},
     pl \in {None} \cup {Some(x) : x \in Payloads(o)}}
  \cup {Response(st, FALSE, <<>>, None) : st \in Statuses}
  \cup {Response(st, TRUE, b, None) :
          st \in {x \in Statuses : ~is_success(x) /\ ~IsGraphQL(o)}, b \in ErrorBodies}

\* StatusCode's Display: the code and its canonical reason
StatusText(status) ==
  CASE status = 200 -> <<"200", " ", "OK">>
    [] status = 204 -> <<"204", " ", "No Content">>
    [] status = 304 -> <<"304", " ", "Not Modified">>
    [] status = 404 -> <<"404", " ", "Not Found">>
    [] status = 500 -> <<"500", " ", "Internal Server Error">>

----------------------------------------------------------------------------
(* GitHubClient::new *)

\* bytes a credential is drawn from: tab, line feed, space, 'A', DEL
TokenBytes == {9, 10, 32, 65, 127}

RECURSIVE SeqsUpTo(_, _)
\* the sequences over S of length at most n
SeqsUpTo(S, n) ==
  IF n = 0 THEN {<<>>}
  ELSE LET shorter == SeqsUpTo(S, n - 1)
       IN  shorter \cup {Append(t, x) : t \in {u \in shorter : Len(u) = n - 1}, x \in S}

Tokens == SeqsUpTo(TokenBytes, MaxTokenLen)

\* a header value: a fixed text followed by bytes
HeaderValue(text, bytes) == [text |-> text, bytes |-> bytes]
Header(name, value) == [name |-> name, value |-> value]

\* HeaderValue::from_str: visible bytes and tab only
HeaderValueFromStr(text, bytes) ==
  IF \A i \in 1..Len(bytes) : (bytes[i] >= 32 /\ bytes[i] # 127) \/ bytes[i] = 9
  THEN Some(HeaderValue(text, bytes))
  ELSE None

\* GitHubClient::new(token): the outcome, and the client built
GitHubClientNew(tok) ==
  LET authorization == HeaderValueFromStr("token ", tok)
  IN  IF authorization = None
      THEN [outcome |-> "panic", default_headers |-> <<>>]   \* .unwrap() of an Err
      ELSE [outcome |-> "Ok",
            default_headers |-> << Header("authorization", Unwrap(authorization)),
                                   Header("user-agent", HeaderValue("mosaic", <<>>)) >>]

----------------------------------------------------------------------------
(* The five operations.  Each is the whole async fn as a function of the   *)
(* response it receives: whether it awaits the body, the tracing events    *)
(* it emits and the Result it returns.                                     *)

Usernames == {"luxass", "octocat"}
Repositories == {"mosaic"}
Paths == {".github/mosaic.toml"}

Operation(name, username, repository_name, path) ==
  [name |-> name, username |-> username, repository_name |-> repository_name,
   path |-> path]

Operations ==
  {Operation("get_user_events", u, "", "") : u \in Usernames}
  \cup {Operation("get_user_profile", "", "", "")}
  \cup {Operation(n, u, r, "") : n \in {"get_repository", "get_languages"},
                                 u \in Usernames, r \in Repositories}
  \cup {Operation("get_content_by_path", u, r, p) :
          u \in Usernames, r \in Repositories, p \in Paths}

Request(method, url, headers, body) ==
  [method |-> method, url |-> url, headers |-> headers, body |-> body]

Accept == Header("accept", HeaderValue("application/vnd.github+json", <<>>))

\* the request an operation builds on the client
BuildRequest(c, o) ==
  CASE o.name = "get_user_events" ->
         Request("GET", <<"https://api.github.com/users/", o.username,
                          "/events?per_page=100&page=1">>, c.default_headers, "")
    [] o.name = "get_user_profile" ->
         Request("POST", <<"https://api.github.com/graphql">>, c.default_headers,
                 "ProfileQuery")
    [] o.name = "get_repository" ->
         Request("POST", <<"https://api.github.com/graphql">>, c.default_headers,
                 "RepositoryQuery")
    [] o.name = "get_languages" ->
         Request("GET", <<"https://api.github.com/repos/", o.username, "/",
                          o.repository_name, "/languages">>,
                 c.default_headers \o <<Accept>>, "")
    [] o.name = "get_content_by_path" ->
         Request("GET", <<"https://api.github.com/repos/", o.username, "/",
                          o.repository_name, "/contents/", o.path>>,
                 c.default_headers \o <<Accept>>, "")

\* tracing events
Event(level, msg) == [level |-> level, msg |-> msg]

\* events emitted before the request is sent
LogBeforeSend(o) ==
  IF o.name = "get_content_by_path"
  THEN <<Event("debug", "requesting github content from {}")>>
  ELSE <<>>

\* Result<T, AppError>
NoBody == GitHubErrorBody(None, None, <<>>)
Ok(value) == [kind |-> "Ok", value |-> value, err |-> NoBody, desc |-> <<>>]
GitHubError(body) == [kind |-> "GitHubError", value |-> "", err |-> body, desc |-> <<>>]
ParseConfigError(desc) ==
  [kind |-> "ParseConfigError", value |-> "", err |-> NoBody, desc |-> desc]

\* Display of the reqwest::Error of a body that cannot be read or decoded
ReqwestErrorText(r) ==
  IF r.readable THEN <<"error decoding response body">>
  ELSE <<"request or response body error">>

\* the `?` on a reqwest::Error: From<reqwest::Error> for AppError
FromReqwestError(desc) ==
  [kind |-> "ReqwestError", value |-> "", err |-> NoBody, desc |-> desc]

\* response.json::<T>(): Some(payload), or None when the body cannot be
\* read or does not decode
ResponseJson(r) == IF r.readable THEN r.payload ELSE None

\* response.text().await.unwrap_or_else(|_| "Unknown error")
ResponseTextOrUnknown(r) == IF r.readable THEN r.text ELSE <<"Unknown error">>

Outcome(awaitsBody, events, res) ==
  [awaitsBody |-> awaitsBody, log |-> events, result |-> res]

\* serde_json::json!(e) of a graphql_client::Error
ToJsonValue(e) ==
  <<"{">> \o Member("message", Quoted(<<e.message>>)) \o <<",">>
    \o Member("locations", <<"null">>) \o <<",">>
    \o Member("path", IF IsSome(e.path) THEN <<"[">> \o Quoted(e.path) \o <<"]">>
                      ELSE <<"null">>) \o <<",">>
    \o Member("extensions", <<"null">>) \o <<"}">>

\* errors.into_iter().map(|e| serde_json::json!(e)).collect()
CollectErrors(errors) == [i \in 1..Len(errors) |-> ToJsonValue(errors[i])]

\* ParsedOrRaw with the placeholder as the message of the fallback
ParsedOrPlaceholder(parsed, error_body) ==
  IF parsed # None THEN Unwrap(parsed)
  ELSE GitHubErrorBody(None, None, <<"Unknown error">>)

\* match serde_json::from_str::<GitHubErrorBody>(&error_body) { Ok | Err }
ParsedOrRaw(parsed, error_body) ==
  IF parsed # None THEN Unwrap(parsed) ELSE GitHubErrorBody(None, None, error_body)

\* the Err the non-success branch of get_user_events returns
EventsError(github_error) ==
  GitHubError(GitHubErrorBody(github_error.documentation_url, github_error.errors,
                              github_error.message))

\* the success branch of the REST operations that propagate a decode error
DecodedOrPropagated(r, decoded_body) ==
  IF decoded_body = None
  THEN Outcome(TRUE, <<>>, FromReqwestError(ReqwestErrorText(r)))
  ELSE Outcome(TRUE, <<>>, Ok(Unwrap(decoded_body).value))

get_user_events(r) ==
  IF is_success(r.status)
  THEN DecodedOrPropagated(r, ResponseJson(r))
  ELSE Outcome(TRUE, <<>>,
         EventsError(ParsedOrRaw(ParseGitHubErrorBody(ResponseTextOrUnknown(r)),
                                 ResponseTextOrUnknown(r))))

\* get_user_profile without the event of the non-success branch
get_user_profile_Silent(r) ==
  IF ~is_success(r.status)
  THEN Outcome(FALSE, <<>>,
               GitHubError(GitHubErrorBody(None, None, <<"Failed to fetch user profile">>)))
  ELSE LET query_response == ResponseJson(r)
       IN  IF query_response = None
           THEN Outcome(TRUE, <<>>, FromReqwestError(ReqwestErrorText(r)))
           ELSE IF IsSome(Unwrap(query_response).errors)
           THEN Outcome(TRUE, <<>>,
                  GitHubError(GitHubErrorBody(None,
                    Some(CollectErrors(Unwrap(Unwrap(query_response).errors))),
                    <<"Failed to fetch user profile">>)))
           ELSE IF IsSome(Unwrap(query_response).data)
           THEN Outcome(TRUE, <<>>, Ok(Unwrap(Unwrap(Unwrap(query_response).data))))
           ELSE Outcome(TRUE, <<>>,
                  GitHubError(GitHubErrorBody(None, None, <<"Failed to fetch user profile">>)))

get_user_profile(r) ==
  IF ~is_success(r.status)
  THEN Outcome(FALSE, <<Event("error", "Failed to fetch user profile: {:?}")>>,
               GitHubError(GitHubErrorBody(None, None, <<"Failed to fetch user profile">>)))
  ELSE LET query_response == ResponseJson(r)
       IN  IF query_response = None
           THEN Outcome(TRUE, <<>>, FromReqwestError(ReqwestErrorText(r)))
           ELSE IF IsSome(Unwrap(query_response).errors)
           THEN Outcome(TRUE, <<>>,
                  GitHubError(GitHubErrorBody(None,
                    Some(CollectErrors(Unwrap(Unwrap(query_response).errors))),
                    <<"Failed to fetch user profile">>)))
           ELSE IF IsSome(Unwrap(query_response).data)
           THEN Outcome(TRUE, <<>>, Ok(Unwrap(Unwrap(Unwrap(query_response).data))))
           ELSE Outcome(TRUE, <<>>,
                  GitHubError(GitHubErrorBody(None, None, <<"Failed to fetch user profile">>)))

\* get_repository with the data examined before the errors
get_repository_DataFirst(r) ==
  IF ~is_success(r.status)
  THEN Outcome(FALSE, <<Event("error", "Failed to fetch repository: {:?}")>>,
               GitHubError(GitHubErrorBody(None, None, <<"Failed to fetch repository">>)))
  ELSE LET query_response == ResponseJson(r)
       IN  IF query_response = None
           THEN Outcome(TRUE, <<>>, FromReqwestError(ReqwestErrorText(r)))
           ELSE IF IsSome(Unwrap(query_response).data)
                   /\ IsSome(Unwrap(Unwrap(query_response).data))
           THEN Outcome(TRUE, <<>>, Ok(Unwrap(Unwrap(Unwrap(query_response).data))))
           ELSE IF IsSome(Unwrap(query_response).errors)
           THEN Outcome(TRUE, <<>>,
                  GitHubError(GitHubErrorBody(None,
                    Some(CollectErrors(Unwrap(Unwrap(query_response).errors))),
                    <<"Failed to fetch user profile">>)))
           ELSE Outcome(TRUE, <<>>,
                  GitHubError(GitHubErrorBody(None, None, <<"Failed to fetch repository">>)))

get_repository(r) ==
  IF ~is_success(r.status)
  THEN Outcome(FALSE, <<Event("error", "Failed to fetch repository: {:?}")>>,
               GitHubError(GitHubErrorBody(None, None, <<"Failed to fetch repository">>)))
  ELSE LET query_response == ResponseJson(r)
       IN  IF query_response = None
           THEN Outcome(TRUE, <<>>, FromReqwestError(ReqwestErrorText(r)))
           ELSE IF IsSome(Unwrap(query_response).errors)
           THEN Outcome(TRUE, <<>>,
                  GitHubError(GitHubErrorBody(None,
                    Some(CollectErrors(Unwrap(Unwrap(query_response).errors))),
                    <<"Failed to fetch user profile">>)))
           ELSE IF IsSome(Unwrap(query_response).data)
                   /\ IsSome(Unwrap(Unwrap(query_response).data))
           THEN Outcome(TRUE, <<>>, Ok(Unwrap(Unwrap(Unwrap(query_response).data))))
           ELSE Outcome(TRUE, <<>>,
                  GitHubError(GitHubErrorBody(None, None, <<"Failed to fetch repository">>)))

\* format!("GitHub API error: status = {}, message = {}", status, error_body)
ApiErrorMessage(status, error_body) ==
  <<"GitHub API error: status = ">> \o StatusText(status)
    \o <<", message = ">> \o error_body

\* get_languages with the error body parsed as get_user_events parses it
get_languages_Parsing(r) ==
  IF ~is_success(r.status)
  THEN Outcome(TRUE, <<>>,
         EventsError(ParsedOrRaw(ParseGitHubErrorBody(ResponseTextOrUnknown(r)),
                                 ResponseTextOrUnknown(r))))
  ELSE DecodedOrPropagated(r, ResponseJson(r))

get_languages(r) ==
  IF ~is_success(r.status)
  THEN Outcome(TRUE, <<>>,
         GitHubError(GitHubErrorBody(None, None,
                       ApiErrorMessage(r.status, ResponseTextOrUnknown(r)))))
  ELSE DecodedOrPropagated(r, ResponseJson(r))

\* get_content_by_path with the error body parsed as get_user_events parses it
get_content_by_path_Parsing(r) ==
  IF ~is_success(r.status)
  THEN Outcome(TRUE, <<>>,
         EventsError(ParsedOrRaw(ParseGitHubErrorBody(ResponseTextOrUnknown(r)),
                                 ResponseTextOrUnknown(r))))
  ELSE LET content_object == ResponseJson(r)
       IN  IF content_object = None
           THEN Outcome(TRUE,
                  <<Event("error", "Error parsing GitHub content response: {:?}")>>,
                  ParseConfigError(ReqwestErrorText(r)))
           ELSE Outcome(TRUE, <<>>, Ok(Unwrap(content_object).value))

\* get_content_by_path with the decode error propagated by `?`
get_content_by_path_Propagating(r) ==
  IF ~is_success(r.status)
  THEN Outcome(TRUE, <<>>,
         GitHubError(GitHubErrorBody(None, None,
                       ApiErrorMessage(r.status, ResponseTextOrUnknown(r)))))
  ELSE DecodedOrPropagated(r, ResponseJson(r))

get_content_by_path(r) ==
  IF ~is_success(r.status)
  THEN Outcome(TRUE, <<>>,
         GitHubError(GitHubErrorBody(None, None,
                       ApiErrorMessage(r.status, ResponseTextOrUnknown(r)))))
  ELSE LET content_object == ResponseJson(r)
       IN  IF content_object = None
           THEN Outcome(TRUE,
                  <<Event("error", "Error parsing GitHub content response: {:?}")>>,
                  ParseConfigError(ReqwestErrorText(r)))
           ELSE Outcome(TRUE, <<>>, Ok(Unwrap(content_object).value))

\* the operation named by o, on the response r
Run(o, r) ==
  CASE o.name = "get_user_events" -> get_user_events(r)
    [] o.name = "get_user_profile" -> get_user_profile(r)
    [] o.name = "get_repository" -> get_repository(r)
    [] o.name = "get_languages" -> get_languages(r)
    [] o.name = "get_content_by_path" -> get_content_by_path(r)

----------------------------------------------------------------------------
(* GitHubContentObject::decoded_content.  Raw content and decoded bytes    *)
(* are sequences of bytes; a decoded text is a sequence of code points.    *)

\* code points of 1, 2, 3 and 4 bytes: 'A', e acute, the euro sign, an emoji
CodePoints == {65, 233, 8364, 128512}

Texts == SeqsUpTo(CodePoints, MaxTextLen)

\* the UTF-8 bytes of a code point
Utf8Bytes(cp) ==
  IF cp < 128 THEN <<cp>>
  ELSE IF cp < 2048 THEN <<192 + (cp \div 64), 128 + (cp % 64)>>
  ELSE IF cp < 65536
  THEN <<224 + (cp \div 4096), 128 + ((cp \div 64) % 64), 128 + (cp % 64)>>
  ELSE <<240 + (cp \div 262144), 128 + ((cp \div 4096) % 64), 128 + ((cp \div 64) % 64),
         128 + (cp % 64)>>

RECURSIVE Utf8Encode(_)
Utf8Encode(text) ==
  IF text = <<>> THEN <<>> ELSE Utf8Bytes(Head(text)) \o Utf8Encode(Tail(text))

\* the character of a 6-bit value in the standard alphabet: A-Z a-z 0-9 + /
Base64Char(v) ==
  IF v < 26 THEN 65 + v
  ELSE IF v < 52 THEN 97 + (v - 26)
  ELSE IF v < 62 THEN 48 + (v - 52)
  ELSE IF v = 62 THEN 43
  ELSE 47

Pad == 61

RECURSIVE Base64Encode(_)
\* standard base64 with padding, as upstream encodes a file
Base64Encode(bs) ==
  IF bs = <<>> THEN <<>>
  ELSE IF Len(bs) = 1
  THEN <<Base64Char(bs[1] \div 4), Base64Char((bs[1] % 4) * 16), Pad, Pad>>
  ELSE IF Len(bs) = 2
  THEN <<Base64Char(bs[1] \div 4), Base64Char(((bs[1] % 4) * 16) + (bs[2] \div 16)),
         Base64Char((bs[2] % 16) * 4), Pad>>
  ELSE <<Base64Char(bs[1] \div 4), Base64Char(((bs[1] % 4) * 16) + (bs[2] \div 16)),
         Base64Char(((bs[2] % 16) * 4) + (bs[3] \div 64)), Base64Char(bs[3] % 64)>>
       \o Base64Encode(SubSeq(bs, 4, Len(bs)))

\* the bytes of u8::is_ascii_whitespace: no vertical tab
Whitespace_IsAscii == {32, 10, 9, 13, 12}

\* b" \n\t\r\x0b\x0c"
Whitespace == {32, 10, 9, 13, 11, 12}

\* content.retain(|b| !b" \n\t\r\x0b\x0c".contains(b))
Retain(bs) == SelectSeq(bs, LAMBDA b : b \notin Whitespace)

\* the 6-bit value of a character of the standard alphabet, -1 for any other
Base64Value(c) ==
  IF 65 <= c /\ c <= 90 THEN c - 65
  ELSE IF 97 <= c /\ c <= 122 THEN c - 97 + 26
  ELSE IF 48 <= c /\ c <= 57 THEN c - 48 + 52
  ELSE IF c = 43 THEN 62
  ELSE IF c = 47 THEN 63
  ELSE -1

\* the number of padding characters that end cs
Padding(cs) ==
  IF Len(cs) >= 1 /\ cs[Len(cs)] = Pad
  THEN (IF Len(cs) >= 2 /\ cs[Len(cs) - 1] = Pad THEN 2 ELSE 1)
  ELSE 0

\* the bytes of four 6-bit values of which the last pad are padding
QuadBytes(a, b, c, d, pad) ==
  IF pad = 2 THEN <<(a * 4) + (b \div 16)>>
  ELSE IF pad = 1 THEN <<(a * 4) + (b \div 16), ((b % 16) * 16) + (c \div 4)>>
  ELSE <<(a * 4) + (b \div 16), ((b % 16) * 16) + (c \div 4), ((c % 4) * 64) + d>>

RECURSIVE DecodeQuads(_, _)
\* the bytes of the 6-bit values vs, whose last quad ends with pad paddings
DecodeQuads(vs, pad) ==
  IF vs = <<>> THEN <<>>
  ELSE IF Len(vs) = 4 THEN QuadBytes(vs[1], vs[2], vs[3], vs[4], pad)
  ELSE QuadBytes(vs[1], vs[2], vs[3], vs[4], 0) \o DecodeQuads(SubSeq(vs, 5, Len(vs)), pad)

\* the 6-bit values of cs with its pad padding characters read as 0
ValuesOf(cs, pad) ==
  [i \in 1..Len(cs) |-> IF i > Len(cs) - pad THEN 0 ELSE Base64Value(cs[i])]

\* the last symbol before the padding leaves no bit set beyond the bytes
NoTrailingBits(vs, pad) ==
  IF pad = 2 THEN vs[Len(vs) - 2] % 16 = 0
  ELSE IF pad = 1 THEN vs[Len(vs) - 1] % 4 = 0
  ELSE TRUE

\* the values vs of a text that ends with pad paddings decode
Decodable(vs, pad) ==
  /\ Len(vs) % 4 = 0
  /\ \A i \in 1..Len(vs) : vs[i] >= 0
  /\ NoTrailingBits(vs, pad)

DecodedValues(vs, pad) ==
  IF Decodable(vs, pad) THEN [ok |-> TRUE, bytes |-> DecodeQuads(vs, pad)]
  ELSE [ok |-> FALSE, bytes |-> <<>>]

\* BASE64_STANDARD.decode: canonical padding required, no trailing bits
Base64Decode(cs) == DecodedValues(ValuesOf(cs, Padding(cs)), Padding(cs))

Replacement == 65533

IsContinuation(b) == 128 <= b /\ b <= 191

\* the bytes the second byte of a sequence led by b may be
SecondByteOk(b, b2) ==
  IF b = 224 THEN 160 <= b2 /\ b2 <= 191
  ELSE IF b = 237 THEN 128 <= b2 /\ b2 <= 159
  ELSE IF b = 240 THEN 144 <= b2 /\ b2 <= 191
  ELSE IF b = 244 THEN 128 <= b2 /\ b2 <= 143
  ELSE IsContinuation(b2)

\* the length of the sequence the byte b leads, 0 when it leads none
SequenceLen(b) ==
  IF b < 128 THEN 1
  ELSE IF 194 <= b /\ b <= 223 THEN 2
  ELSE IF 224 <= b /\ b <= 239 THEN 3
  ELSE IF 240 <= b /\ b <= 244 THEN 4
  ELSE 0

\* how many bytes at the head of bs are a well-formed start of a sequence of
\* n bytes: n when the sequence is complete
ValidPrefix(bs, n) ==
  IF n = 0 THEN 0
  ELSE IF n = 1 THEN 1
  ELSE IF Len(bs) < 2 \/ ~SecondByteOk(bs[1], bs[2]) THEN 1
  ELSE IF n = 2 THEN 2
  ELSE IF Len(bs) < 3 \/ ~IsContinuation(bs[3]) THEN 2
  ELSE IF n = 3 THEN 3
  ELSE IF Len(bs) < 4 \/ ~IsContinuation(bs[4]) THEN 3
  ELSE 4

\* the code point of a complete sequence of n bytes at the head of bs
CodePointOf(bs, n) ==
  IF n = 1 THEN bs[1]
  ELSE IF n = 2 THEN ((bs[1] - 192) * 64) + (bs[2] - 128)
  ELSE IF n = 3 THEN ((bs[1] - 224) * 4096) + ((bs[2] - 128) * 64) + (bs[3] - 128)
  ELSE ((bs[1] - 240) * 262144) + ((bs[2] - 128) * 4096) + ((bs[3] - 128) * 64)
         + (bs[4] - 128)

RECURSIVE Utf8Lossy(_)
\* the first code point of bs, read from k bytes of a sequence of n bytes
\* (the replacement character when the sequence is broken), and the rest
LossyStep(bs, n, k) ==
  <<IF n > 0 /\ k = n THEN CodePointOf(bs, n) ELSE Replacement>>
    \o Utf8Lossy(SubSeq(bs, (IF k = 0 THEN 1 ELSE k) + 1, Len(bs)))

\* String::from_utf8_lossy: each maximal ill-formed run becomes U+FFFD
Utf8Lossy(bs) ==
  IF bs = <<>> THEN <<>>
  ELSE LossyStep(bs, SequenceLen(bs[1]), ValidPrefix(bs, SequenceLen(bs[1])))

\* what decoded_content ends with: None, Some(text), or a panic
Decoded(kind, text) == [kind |-> kind, text |-> text]

\* .expect("could not decode github content"), then from_utf8_lossy
ExpectDecoded(d) ==
  IF d.ok THEN Decoded("Some", Utf8Lossy(d.bytes)) ELSE Decoded("panic", <<>>)

\* decoded_content with an undecodable content read as empty (unwrap_or_default)
decoded_content_Default(c) ==
  IF c = None THEN Decoded("None", <<>>)
  ELSE Decoded("Some", Utf8Lossy(Base64Decode(Retain(Unwrap(c))).bytes))

\* GitHubContentObject::decoded_content
decoded_content(c) ==
  IF c = None THEN Decoded("None", <<>>)
  ELSE ExpectDecoded(Base64Decode(Retain(Unwrap(c))))

----------------------------------------------------------------------------
(* The calls as processes: a call is idle, has sent its request and awaits *)
(* the response ("sending"), awaits the materialization of the body        *)
(* ("body"), or has returned ("done").                                     *)

Calls == DOMAIN pc

NoOperation == Operation("", "", "", "")
DefaultToken == <<65>>

Unconstructed == [state |-> "none", default_headers |-> <<>>]

\* the response a call holds: the local `response` of its async fn
ResponseOf(p) == Unwrap(response[p])

\* the decoder is not part of the calls
DecoderIdle ==
  /\ content = None
  /\ source = None
  /\ decoded = [kind |-> "none", text |-> <<>>]
  /\ dpc = "off"

InitCalls(n) ==
  /\ pc = [p \in 1..n |-> "idle"]
  /\ op = [p \in 1..n |-> NoOperation]
  /\ requests = [p \in 1..n |-> <<>>]
  /\ response = [p \in 1..n |-> None]
  /\ result = [p \in 1..n |-> None]
  /\ log = [p \in 1..n |-> <<>>]

\* GitHubClient::new(token)
New ==
  /\ client.state = "none"
  /\ client' = IF GitHubClientNew(token).outcome = "Ok"
               THEN [state |-> "ready",
                     default_headers |-> GitHubClientNew(token).default_headers]
               ELSE [state |-> "panicked", default_headers |-> <<>>]
  /\ UNCHANGED <<token, callVars, decoderVars>>

\* the call p starts operation o: builds the request and sends it
Call(p, o) ==
  /\ client.state = "ready"
  /\ pc[p] = "idle"
  /\ op' = [op EXCEPT ![p] = o]
  /\ log' = [log EXCEPT ![p] = @ \o LogBeforeSend(o)]
  /\ requests' = [requests EXCEPT ![p] = Append(@, BuildRequest(client, o))]
  /\ pc' = [pc EXCEPT ![p] = "sending"]
  /\ UNCHANGED <<client, token, response, result, decoderVars>>

\* .send().await? fails: the request could not be sent
SendFailed(p) ==
  /\ pc[p] = "sending"
  /\ result' = [result EXCEPT ![p] = Some(FromReqwestError(<<"error sending request">>))]
  /\ pc' = [pc EXCEPT ![p] = "done"]
  /\ UNCHANGED <<client, token, op, requests, response, log, decoderVars>>

\* the response r arrives: the status is examined, and the call either
\* returns or goes on to await the body
Respond(p, r) ==
  /\ pc[p] = "sending"
  /\ response' = [response EXCEPT ![p] = Some(r)]
  /\ IF Run(op[p], r).awaitsBody
     THEN /\ pc' = [pc EXCEPT ![p] = "body"]
          /\ UNCHANGED <<log, result>>
     ELSE /\ log' = [log EXCEPT ![p] = @ \o Run(op[p], r).log]
          /\ result' = [result EXCEPT ![p] = Some(Run(op[p], r).result)]
          /\ pc' = [pc EXCEPT ![p] = "done"]
  /\ UNCHANGED <<client, token, op, requests, decoderVars>>

\* BodyRead under a lock of the client: one body is read at a time, in the
\* order of the calls
BodyRead_Serialized(p) ==
  /\ pc[p] = "body"
  /\ \A q \in Calls : q < p => pc[q] # "body"
  /\ log' = [log EXCEPT ![p] = @ \o Run(op[p], ResponseOf(p)).log]
  /\ result' = [result EXCEPT ![p] = Some(Run(op[p], ResponseOf(p)).result)]
  /\ pc' = [pc EXCEPT ![p] = "done"]
  /\ UNCHANGED <<client, token, op, requests, response, decoderVars>>

\* the body has materialized (or failed to): the call returns
BodyRead(p) ==
  /\ pc[p] = "body"
  /\ log' = [log EXCEPT ![p] = @ \o Run(op[p], ResponseOf(p)).log]
  /\ result' = [result EXCEPT ![p] = Some(Run(op[p], ResponseOf(p)).result)]
  /\ pc' = [pc EXCEPT ![p] = "done"]
  /\ UNCHANGED <<client, token, op, requests, response, decoderVars>>

\* one call on a constructed client, over every response
Init ==
  /\ token = DefaultToken
  /\ client = [state |-> "ready",
               default_headers |-> GitHubClientNew(DefaultToken).default_headers]
  /\ InitCalls(1)
  /\ DecoderIdle

Next ==
  \/ \E p \in Calls, o \in Operations : Call(p, o)
  \/ \E p \in Calls : SendFailed(p)
  \/ \E p \in Calls : \E r \in Responses(op[p]) : Respond(p, r)
  \/ \E p \in Calls : BodyRead(p)

Spec == Init /\ [][Next]_vars

\* construction from every credential, followed by the sending of a request
InitClient ==
  /\ token \in Tokens
  /\ client = Unconstructed
  /\ InitCalls(1)
  /\ DecoderIdle

NextClient ==
  \/ New
  \/ \E p \in Calls, o \in Operations : Call(p, o)

SpecClient == InitClient /\ [][NextClient]_vars

\* concurrent calls on one client
ConcOperations ==
  { Operation("get_user_events", "luxass", "", ""),
    Operation("get_user_profile", "", "", ""),
    Operation("get_repository", "luxass", "mosaic", ""),
    Operation("get_languages", "luxass", "mosaic", ""),
    Operation("get_content_by_path", "luxass", "mosaic", ".github/mosaic.toml") }

ConcResponses(o) ==
  CASE o.name = "get_user_events" ->
         { Response(200, TRUE, <<>>, Some(Payload(None, None, "[event]"))),
           Response(404, TRUE, MessageOnlyBody, None),
           Response(500, FALSE, <<>>, None) }
    [] o.name = "get_user_profile" ->
         { Response(200, TRUE, <<>>, Some(Payload(Some(Some("viewer")), None, ""))),
           Response(404, TRUE, <<>>, None) }
    [] o.name = "get_repository" ->
         { Response(200, TRUE, <<>>, Some(Payload(Some(Some("repository")), None, ""))),
           Response(200, TRUE, <<>>, Some(Payload(Some(None), None, ""))) }
    [] o.name = "get_languages" ->
         { Response(200, TRUE, <<>>, Some(Payload(None, None, "{Rust: 1}"))),
           Response(500, TRUE, <<"internal error">>, None) }
    [] o.name = "get_content_by_path" ->
         { Response(200, TRUE, <<>>, Some(Payload(None, None, "content object"))),
           Response(200, TRUE, <<>>, None),
           Response(404, TRUE, MessageOnlyBody, None) }
    [] OTHER -> {}

InitConc ==
  /\ token = DefaultToken
  /\ client = [state |-> "ready",
               default_headers |-> GitHubClientNew(DefaultToken).default_headers]
  /\ InitCalls(NumCalls)
  /\ DecoderIdle

NextConc ==
  \/ \E p \in Calls, o \in ConcOperations : Call(p, o)
  \/ \E p \in Calls : SendFailed(p)
  \/ \E p \in Calls : \E r \in ConcResponses(op[p]) : Respond(p, r)
  \/ \E p \in Calls : BodyRead(p)

SpecConc == InitConc /\ [][NextConc]_vars

\* the content decoder on a content object: one whose content field is the
\* base64 text of a source text, wrapped in whitespace, or one whose content
\* field is anything at all, or absent

\* space, newline, tab, carriage return, vertical tab, form feed
AsciiWhitespace == {9, 10, 11, 12, 13, 32}

\* 'A' 'Q' 'R' 'g' of the alphabet, the padding '=', a space and a '*'
ContentBytes == {65, 81, 82, 103, 61, 32, 42}

RawContents == {None} \cup {Some(bs) : bs \in SeqsUpTo(ContentBytes, MaxContentLen)}

InsertAt(bs, i, w) == SubSeq(bs, 1, i) \o <<w>> \o SubSeq(bs, i + 1, Len(bs))

\* upstream encodes the file: content is the base64 text of its UTF-8 bytes
EncodeContent ==
  /\ dpc = "start"
  /\ source # None
  /\ content' = Some(Base64Encode(Utf8Encode(Unwrap(source))))
  /\ dpc' = "encoded"
  /\ UNCHANGED <<client, token, callVars, source, decoded>>

\* upstream wraps the base64 text: one more whitespace byte at any position
InsertWhitespace ==
  /\ dpc = "encoded"
  /\ Len(Unwrap(content)) < Len(Base64Encode(Utf8Encode(Unwrap(source)))) + MaxWs
  /\ \E i \in 0..Len(Unwrap(content)), w \in AsciiWhitespace :
       content' = Some(InsertAt(Unwrap(content), i, w))
  /\ UNCHANGED <<client, token, callVars, source, decoded, dpc>>

\* a content object as deserialized from any response: content: Option<String>
ReceiveContent ==
  /\ dpc = "start"
  /\ source = None
  /\ \E c \in RawContents : content' = c
  /\ dpc' = "received"
  /\ UNCHANGED <<client, token, callVars, source, decoded>>

\* object.decoded_content()
DecodedContent ==
  /\ dpc \in {"encoded", "received"}
  /\ decoded' = decoded_content(content)
  /\ dpc' = "decoded"
  /\ UNCHANGED <<client, token, callVars, content, source>>

InitDecode ==
  /\ token = DefaultToken
  /\ client = [state |-> "ready",
               default_headers |-> GitHubClientNew(DefaultToken).default_headers]
  /\ InitCalls(0)
  /\ source \in {None} \cup {Some(t) : t \in Texts}
  /\ content = None
  /\ decoded = [kind |-> "none", text |-> <<>>]
  /\ dpc = "start"

NextDecode ==
  \/ EncodeContent
  \/ InsertWhitespace
  \/ ReceiveContent
  \/ DecodedContent

SpecDecode == InitDecode /\ [][NextDecode]_vars

----------------------------------------------------------------------------
(* Properties of the operations *)

Returned(p) == pc[p] = "done"
Res(p) == Unwrap(result[p])

\* the call p ran the operation named n to its end on a response
RanOn(p, n) == Returned(p) /\ op[p].name = n /\ response[p] # None

\* the call p received an envelope: a success status and a body that decodes
Envelope(p) ==
  /\ is_success(ResponseOf(p).status)
  /\ ResponseOf(p).readable
  /\ ResponseOf(p).payload # None

EnvelopeOf(p) == Unwrap(ResponseOf(p).payload)

\* the field the operation extracts from the data of an envelope (Option)
Targeted(n, env) ==
  IF env.data = None THEN None
  ELSE IF n = "get_user_profile" THEN Unwrap(env.data)
  ELSE Unwrap(env.data)

FixedMessage(n) ==
  IF n = "get_user_profile" THEN <<"Failed to fetch user profile">>
  ELSE <<"Failed to fetch repository">>

\* the JSON text v denotes the upstream error e
DenotesError(v, e) ==
  /\ IsObject(v)
  /\ Field(ObjectMembers(v), "message") = <<Quoted(<<e.message>>)>>
  /\ Field(ObjectMembers(v), "path") =
       <<IF IsSome(e.path) THEN <<"[">> \o Quoted(e.path) \o <<"]">> ELSE <<"null">>>>

\* the structured errors of the result are the upstream list, element for element
SameErrors(out, upstream) ==
  /\ Len(out) = Len(upstream)
  /\ \A i \in 1..Len(upstream) : DenotesError(out[i], upstream[i])

C1_Order(p, n) ==
  RanOn(p, n) =>
    IF ~is_success(ResponseOf(p).status)
    THEN Res(p) = GitHubError(GitHubErrorBody(None, None, FixedMessage(n)))
    ELSE Envelope(p) =>
      IF IsSome(EnvelopeOf(p).errors)
      THEN /\ Res(p).kind = "GitHubError"
           /\ IsSome(Res(p).err.errors)
           /\ SameErrors(Unwrap(Res(p).err.errors), Unwrap(EnvelopeOf(p).errors))
      ELSE IF Targeted(n, EnvelopeOf(p)) = None
      THEN Res(p) = GitHubError(GitHubErrorBody(None, None, FixedMessage(n)))
      ELSE Res(p) = Ok(Unwrap(Targeted(n, EnvelopeOf(p))))

\* C1: in get_user_profile and get_repository the outcome is decided in the
\* order (1) non-2xx status: error with the fixed message and no structured
\* errors, whatever the body holds; (2) an envelope with an errors list:
\* error whose structured errors are the upstream list element for element,
\* even when data is present; (3) an envelope without the targeted field:
\* error with the fixed message; (4) otherwise success with the targeted field.
C1_ResolutionOrder ==
  \A p \in Calls : C1_Order(p, "get_user_profile") /\ C1_Order(p, "get_repository")

C1_Witness ==
  \E p \in Calls :
    /\ RanOn(p, "get_repository") /\ Envelope(p)
    /\ EnvelopeOf(p).data = Some(Some("repository"))
    /\ IsSome(EnvelopeOf(p).errors) /\ Len(Unwrap(EnvelopeOf(p).errors)) = 2
    /\ Unwrap(EnvelopeOf(p).errors)[1] # Unwrap(EnvelopeOf(p).errors)[2]
    /\ Res(p).kind = "GitHubError" /\ Len(Unwrap(Res(p).err.errors)) = 2

\* bodies that are not the structured error shape
Unstructured == RawBodies \cup {Render(d) : d \in {x \in ErrorDocs : x.message = None}}

\* C2: for every non-2xx response to get_user_events the result is a
\* GitHubError fixed by the body alone: the fields of a structured body are
\* those of the body; a body that does not parse is the message verbatim with
\* no documentation URL and no sub-errors; an unreadable body gives the
\* placeholder message and no structured fields.
C2_EventsErrorFromBody ==
  \A p \in Calls :
    (RanOn(p, "get_user_events") /\ ~is_success(ResponseOf(p).status)) =>
      /\ Res(p).kind = "GitHubError"
      /\ \A d \in ErrorDocs :
           (ResponseOf(p).readable /\ d.message # None /\ ResponseOf(p).text = Render(d))
             => Res(p).err = GitHubErrorBody(d.documentation_url, d.errors, Unwrap(d.message))
      /\ (ResponseOf(p).readable /\ ResponseOf(p).text \in Unstructured)
           => Res(p).err = GitHubErrorBody(None, None, ResponseOf(p).text)
      /\ ~ResponseOf(p).readable
           => Res(p).err = GitHubErrorBody(None, None, <<"Unknown error">>)

C2_Witness ==
  \E p \in Calls :
    /\ RanOn(p, "get_user_events") /\ ResponseOf(p).status = 404
    /\ Res(p).err.message = <<"Validation Failed">>
    /\ Res(p).err.documentation_url = Some(<<"https://docs.example/x">>)
    /\ IsSome(Res(p).err.errors) /\ Len(Unwrap(Res(p).err.errors)) = 2

\* the scenario of C3: a content lookup answered 404 with the Not Found document
C3_Scenario(p) ==
  /\ RanOn(p, "get_content_by_path")
  /\ ResponseOf(p) = Response(404, TRUE, NotFoundBody, None)

\* C3 as stated: the content lookup answered 404 with the Not Found document
\* yields a GitHubError whose message is exactly "Not Found" and whose
\* documentation URL is the one of the body.
C3_AsStated ==
  \A p \in Calls :
    C3_Scenario(p) =>
      /\ Res(p).kind = "GitHubError"
      /\ Res(p).err.message = <<"Not Found">>
      /\ Res(p).err.documentation_url = Some(<<"https://docs.example/x">>)

\* C3 amended: the content lookup answered 404 with the Not Found document
\* yields a GitHubError whose message is "GitHub API error: status = 404 Not
\* Found, message = " followed by the raw body, with no documentation URL and
\* no sub-errors.
C3_ContentErrorIsRaw ==
  \A p \in Calls :
    C3_Scenario(p) =>
      Res(p) = GitHubError(GitHubErrorBody(None, None,
                 <<"GitHub API error: status = ", "404", " ", "Not Found",
                   ", message = ">> \o NotFoundBody))

C3_Witness == \E p \in Calls : C3_Scenario(p) /\ Res(p).kind = "GitHubError"

\* the decimal code of a status, as text
CodeText(status) ==
  CASE status = 304 -> <<"304">> [] status = 404 -> <<"404">> [] status = 500 -> <<"500">>

\* C4: for every non-2xx response to get_languages the result is a
\* GitHubError whose message contains the status code and the raw body text
\* (the placeholder when the body cannot be read), with no documentation URL
\* and no sub-errors: the body is not parsed, a structured one is embedded raw.
C4_LanguagesErrorIsRaw ==
  \A p \in Calls :
    (RanOn(p, "get_languages") /\ ~is_success(ResponseOf(p).status)) =>
      /\ Res(p).kind = "GitHubError"
      /\ Res(p).err.documentation_url = None
      /\ Res(p).err.errors = None
      /\ Contains(Res(p).err.message, CodeText(ResponseOf(p).status))
      /\ Contains(Res(p).err.message,
                  IF ResponseOf(p).readable THEN ResponseOf(p).text
                  ELSE <<"Unknown error">>)
      /\ Len(Res(p).err.message) > Len(ResponseOf(p).text)

C4_Witness ==
  \E p \in Calls :
    /\ RanOn(p, "get_languages")
    /\ ResponseOf(p) = Response(500, TRUE, <<"internal error">>, None)
    /\ Contains(Res(p).err.message, <<"500">>)
    /\ Contains(Res(p).err.message, <<"internal error">>)

\* C7: in get_content_by_path a 2xx response whose body does not decode is
\* returned as ParseConfigError carrying the description of the decode error,
\* not as GitHubError and not as the transport kind; a request that could not
\* be sent is returned as the transport kind, not as either of the other two.
C7_ParseErrorIsDistinct ==
  \A p \in Calls :
    (Returned(p) /\ op[p].name = "get_content_by_path") =>
      /\ (/\ response[p] # None
          /\ is_success(ResponseOf(p).status)
          /\ ResponseOf(p).readable
          /\ ResponseOf(p).payload = None)
           => Res(p) = ParseConfigError(<<"error decoding response body">>)
      /\ response[p] = None
           => /\ Res(p).kind = "ReqwestError"
              /\ Res(p).kind \notin {"ParseConfigError", "GitHubError"}

C7_Witness ==
  \E p \in Calls :
    /\ RanOn(p, "get_content_by_path")
    /\ ResponseOf(p) = Response(200, TRUE, <<>>, None)
    /\ Res(p).kind = "ParseConfigError"

\* the error events a call has logged
ErrorEvents(p) == SelectSeq(log[p], LAMBDA e : e.level = "error")

Failed(p) == Returned(p) /\ Res(p).kind # "Ok"

\* C8 as stated: every run that ends with an error has exactly one log event
\* for it, emitted before the error is returned, and no run issues a second
\* request.
C8_AsStated ==
  \A p \in Calls :
    /\ Failed(p) => Len(ErrorEvents(p)) = 1
    /\ Len(requests[p]) <= 1

\* the failures the code logs: a non-2xx status of a GraphQL operation, and
\* a 2xx body of the content lookup that cannot be read or decoded
LoggedFailure(p) ==
  /\ response[p] # None
  /\ \/ IsGraphQL(op[p]) /\ ~is_success(ResponseOf(p).status)
     \/ /\ op[p].name = "get_content_by_path"
        /\ is_success(ResponseOf(p).status)
        /\ ~(ResponseOf(p).readable /\ ResponseOf(p).payload # None)

\* C8 amended: a run that ends with an error has one error event, present
\* when the error is returned, exactly when the error is a non-2xx status in
\* get_user_profile or get_repository or an unreadable or undecodable 2xx body
\* in get_content_by_path, and no error event otherwise; a run that succeeds
\* has none; no run issues a second request.
C8_LoggedOnceWhereLogged ==
  \A p \in Calls :
    /\ Failed(p) => Len(ErrorEvents(p)) = (IF LoggedFailure(p) THEN 1 ELSE 0)
    /\ ~Failed(p) => ErrorEvents(p) = <<>>
    /\ Len(requests[p]) = (IF pc[p] = "idle" THEN 0 ELSE 1)

C8_Witness ==
  \E p \in Calls :
    /\ RanOn(p, "get_user_profile") /\ ResponseOf(p).status = 404
    /\ Failed(p) /\ Len(ErrorEvents(p)) = 1 /\ Len(requests[p]) = 1

\* a credential HeaderValue::from_str accepts: no line feed, no DEL
Encodable(tok) == \A i \in 1..Len(tok) : tok[i] \notin {10, 127}

\* C9 as stated: GitHubClient::new fails only for a credential that cannot be
\* encoded as a header value, and then returns a failure instead of ending
\* the process; for an encodable credential it succeeds and every request
\* carries the authorization header with the credential and the user agent.
C9_AsStated ==
  /\ client.state # "none" =>
       IF Encodable(token)
       THEN client = [state |-> "ready",
                      default_headers |->
                        << Header("authorization", HeaderValue("token ", token)),
                           Header("user-agent", HeaderValue("mosaic", <<>>)) >>]
       ELSE client.state = "failed"
  /\ \A p \in Calls : \A i \in 1..Len(requests[p]) :
       /\ requests[p][i].headers[1] = Header("authorization", HeaderValue("token ", token))
       /\ requests[p][i].headers[2] = Header("user-agent", HeaderValue("mosaic", <<>>))

\* what the operation o returns on the response received (None: not sent)
\* when it is the only call
Alone(o, received) ==
  IF received = None THEN FromReqwestError(<<"error sending request">>)
  ELSE Run(o, Unwrap(received)).result

\* the client as GitHubClient::new built it
Constructed ==
  [state |-> "ready",
   default_headers |-> << Header("authorization", HeaderValue("token ", token)),
                          Header("user-agent", HeaderValue("mosaic", <<>>)) >>]

\* every call that has not returned can take its next step now
NoWaiting ==
  \A p \in Calls :
    /\ pc[p] = "idle" => \A o \in ConcOperations : ENABLED Call(p, o)
    /\ pc[p] = "sending" =>
         /\ ENABLED SendFailed(p)
         /\ \A r \in ConcResponses(op[p]) : ENABLED Respond(p, r)
    /\ pc[p] = "body" => ENABLED BodyRead(p)

\* every call that has returned returns what it returns alone
ResultsAlone ==
  \A p \in Calls :
    Returned(p) =>
      /\ result[p] = Some(Alone(op[p], response[p]))
      /\ requests[p] = <<BuildRequest(client, op[p])>>

\* C10: under every interleaving of the steps of concurrent calls on one
\* client, the client is never changed, no call waits on another, and each
\* call returns what it returns alone on the same response.
C10_Independent ==
  /\ client = Constructed
  /\ NoWaiting
  /\ ResultsAlone

C10_Witness ==
  /\ \A p \in Calls : Returned(p) /\ response[p] # None
  /\ \E p, q \in Calls :
       /\ op[p].name = "get_content_by_path" /\ op[q].name = "get_user_events"
       /\ Res(p).kind = "Ok" /\ Res(q).kind = "GitHubError"


----------------------------------------------------------------------------
(* Properties of the content decoder *)

\* C5: the text decoded from the base64 text of a source text, with
\* whitespace and newlines interleaved at any positions, is exactly the
\* source text.
C5_RoundTrip ==
  (dpc = "decoded" /\ source # None) => decoded = Decoded("Some", Unwrap(source))

C5_Witness ==
  /\ dpc = "decoded"
  /\ source = Some(<<128512>>)
  /\ Len(Unwrap(content)) = Len(Base64Encode(Utf8Encode(Unwrap(source)))) + MaxWs
  /\ Unwrap(content)[1] = 11
  /\ Unwrap(content)[Len(Unwrap(content))] # 61
  /\ decoded.kind = "Some"

Base64Alphabet == {Base64Char(v) : v \in 0..63}

\* the characters that leave the last two bits, or the last four, unset
TwoBitsUnset == {Base64Char(4 * v) : v \in 0..15}

FourBitsUnset == {Base64Char(16 * v) : v \in 0..3}

\* cs is a base64 text with pad padding characters
CanonicalWith(cs, pad) ==
  /\ pad <= Len(cs)
  /\ \A i \in 1..(Len(cs) - pad) : cs[i] \in Base64Alphabet
  /\ \A i \in (Len(cs) - pad + 1)..Len(cs) : cs[i] = 61
  /\ pad = 1 => cs[Len(cs) - 1] \in TwoBitsUnset
  /\ pad = 2 => cs[Len(cs) - 2] \in FourBitsUnset

\* cs is valid standard base64: whole quads, padded at the end only
Canonical(cs) == Len(cs) % 4 = 0 /\ \E pad \in 0..2 : CanonicalWith(cs, pad)

\* C6: decoded_content returns a text only for a present content whose
\* stripped form is valid base64; an absent content gives None and no
\* failure; a present malformed content gives no text at all, and its failure
\* (a panic) is not the None of the absent content.
C6_TextOnlyFromValidBase64 ==
  dpc = "decoded" =>
    /\ decoded.kind = "Some" <=>
         (content # None /\ Canonical(SelectSeq(Unwrap(content),
                                                LAMBDA b : b \notin AsciiWhitespace)))
    /\ content = None => decoded = Decoded("None", <<>>)
    /\ content # None /\ decoded.kind # "Some" => decoded = Decoded("panic", <<>>)

C6_Witness ==
  /\ dpc = "decoded"
  /\ source = None
  /\ content = Some(<<81, 32, 81, 61>>)
  /\ decoded.kind = "panic"

====
